---- MODULE Spec2Model ----
(***************************************************************************)
(* A model of allocator.c: a size-class slab allocator over mmap.          *)
(*                                                                         *)
(* Memory is a map from 8-byte word addresses to word values.  Only the    *)
(* words the allocator itself reads or writes are kept: the two header     *)
(* words at the start of a page (magic+padding at offset 0, size at        *)
(* offset 8) and the first word of a block (the node's next link).  A      *)
(* word that is absent from the map reads as 0, which is what a fresh      *)
(* anonymous mapping holds.  Every word value of the model is below 2^31,  *)
(* so the int read of header.magic (the low 32 bits of the word on a       *)
(* little-endian machine) is the word itself.                              *)
(***************************************************************************)
EXTENDS Integers, Sequences, FiniteSets, Bags, TLC

VARIABLES
    lists,        \* void* lists[8]: the free-list heads
    mem,          \* word address -> word value, for the words written so far
    mapped,       \* page numbers obtained from mmap so far
    live,         \* bag of [base, len]: allocations the caller holds
    lastFreed,    \* per class: the block the caller released last, NULL
                  \* after an xxmalloc of the class (the caller's bookkeeping)
    leaked,       \* large mappings the caller released: [base, len, tag]
    handed,       \* every [base, len] that xxmalloc has returned so far
    strays,       \* calls so far that were outside the contract
    call,         \* the last call: [op, arg, ret, returned, expect, bs]
    pc,           \* "running", "exited", "crashed" (SIGSEGV) or "hung"
    exit_status,  \* the status passed to exit()
    logged,       \* the messages passed to log_message
    stderr,       \* what write() put on the error channel
    client,       \* the request sizes the calling program uses
    quota,        \* the number of allocations the calling program holds at most
    peak,         \* per class: the most blocks of the class held at one time
    since,        \* per class: the blocks the caller released since the last
                  \* xxmalloc of the class
    doubled,      \* per class: the block the caller released twice with no
                  \* xxmalloc of the class in between, NULL when none was
    threads       \* thread -> its position and locals inside a call, for the
                  \* programs with more than one thread; empty otherwise

vars == <<lists, mem, mapped, live, lastFreed, leaked, handed, strays, call, pc, exit_status,
          logged, stderr, client, quota, peak, since, doubled, threads>>

(***************************************************************************)
(* Program constants.                                                      *)
(***************************************************************************)
MIN_MALLOC_SIZE == 16
PAGE_SIZE == 4096
MAGIC == 12073110
NULL == 0
MAP_FAILED == -1
NumLists == 8
LargeThreshold == 2048
HeaderSizeOffset == 8

(***************************************************************************)
(* Bounds of the model.                                                    *)
(***************************************************************************)
NumPages == 3      \* pages of address space mmap can hand out
MaxLive == 2       \* allocations the caller holds at once

AllocPages == 1..NumPages        \* page 0 holds NULL and is never mapped
ForeignPage == NumPages + 1      \* a readable, zero-filled page that is not
                                 \* the allocator's

(***************************************************************************)
(* Memory.                                                                 *)
(***************************************************************************)
Load(m, a) == IF a \in DOMAIN m THEN m[a] ELSE 0

Store(m, a, v) ==
    IF a \in DOMAIN m
    THEN [m EXCEPT ![a] = v]
    ELSE [x \in (DOMAIN m) \cup {a} |-> IF x = a THEN v ELSE m[x]]

PageBase(a) == a - (a % PAGE_SIZE)

Readable(a) == (a \div PAGE_SIZE) \in (mapped \cup {ForeignPage})

(***************************************************************************)
(* round_power_2: the exponent of the smallest power of two that is at     *)
(* least 16 and at least x.                                                *)
(***************************************************************************)
RECURSIVE round_power_2_loop(_, _, _)
round_power_2_loop(x, accum, i) ==
    IF accum < x THEN round_power_2_loop(x, accum * 2, i + 1) ELSE i + 4

round_power_2(x) == round_power_2_loop(x, 16, 0)

(***************************************************************************)
(* size_t is 64 bits wide.  A value v below 2^63 stands for itself and a   *)
(* value 2^64 - k stands as -k (its two's complement): 4096 divides 2^64,  *)
(* so %, + and - on these representatives agree with the unsigned          *)
(* arithmetic of the code, a sum that passes 2^64 comes out as the small   *)
(* number it wraps to, and only an ordering has to tell the two halves     *)
(* apart.                                                                  *)
(***************************************************************************)
Top(k) == 0 - k

\* x > y on size_t, for y below 2^63
Above(x, y) == x < 0 \/ x > y

RoundUpAlways(x, y) == x + (y - (x % y))

ROUND_UP(x, y) == IF x % y = 0 THEN x ELSE x + (y - (x % y))

(***************************************************************************)
(* mmap(NULL, len, ...): the base of a fresh run of pages that holds len   *)
(* bytes, placed at the low or at the high end of the unmapped space (the  *)
(* kernel's bottom-up or top-down search); MAP_FAILED when the length is 0 *)
(* (EINVAL) or no run of unmapped pages holds it (ENOMEM).                 *)
(***************************************************************************)
PagesAt(p, len) == (p \div PAGE_SIZE)..((p + len - 1) \div PAGE_SIZE)

FreeRuns(len) ==
    {q \in AllocPages :
        len > 0 /\ PagesAt(q * PAGE_SIZE, len) \subseteq (AllocPages \ mapped)}

Placements(len) ==
    {q \in FreeRuns(len) :
        (\A r \in FreeRuns(len) : q <= r) \/ (\A r \in FreeRuns(len) : q >= r)}

mmap(len) ==
    IF FreeRuns(len) = {} THEN {MAP_FAILED}
    ELSE {pg * PAGE_SIZE : pg \in Placements(len)}

(***************************************************************************)
(* The slab carve of xxmalloc: thread blocks 1..n-1 of the page at p, then *)
(* write the header.  head->magic is an int store into the low 32 bits of  *)
(* the first word; the padding above it is 0 in every word of the model.   *)
(***************************************************************************)
BlocksPerPage(block_size) == PAGE_SIZE \div block_size

NodeNextOpen(p, block_size, i) == p + (i + 1) * block_size

NodeNext(p, block_size, i) ==
    IF i = BlocksPerPage(block_size) - 1 THEN NULL ELSE p + (i + 1) * block_size

CarvedNodes(p, block_size) ==
    {p + i * block_size : i \in 1..(BlocksPerPage(block_size) - 1)}

ThreadBlocks(m, p, block_size) ==
    [x \in (DOMAIN m) \cup CarvedNodes(p, block_size) |->
        IF x \in CarvedNodes(p, block_size)
        THEN NodeNext(p, block_size, (x - p) \div block_size)
        ELSE m[x]]

WriteHeader(m, p, block_size) ==
    Store(Store(m, p, MAGIC), p + HeaderSizeOffset, block_size)

Carve(m, p, block_size) == WriteHeader(ThreadBlocks(m, p, block_size), p, block_size)

(***************************************************************************)
(* xxmalloc_usable_size, on readable memory.                               *)
(***************************************************************************)
HeaderMagic(m, page) == Load(m, page)

HeaderSize(m, page) == Load(m, page + HeaderSizeOffset)

UsableSizeNoTag(m, ptr) ==
    IF ptr = NULL THEN 0 ELSE HeaderSize(m, PageBase(ptr))

xxmalloc_usable_size(m, ptr) ==
    IF ptr = NULL THEN 0
    ELSE IF HeaderMagic(m, PageBase(ptr)) # MAGIC THEN 0
    ELSE HeaderSize(m, PageBase(ptr))

(***************************************************************************)
(* xxfree's search for the list index: halve start until it is 16.  The    *)
(* loop never ends when start passes 16 without hitting it; NoIndex stands *)
(* for that.                                                               *)
(***************************************************************************)
NoIndex == -1

RECURSIVE FreeIndexLoop(_, _)
FreeIndexLoop(start, accum) ==
    IF start = 16 THEN accum
    ELSE IF start <= 0 THEN NoIndex
    ELSE FreeIndexLoop(start \div 2, accum + 1)

FreeIndexFromOne(block_size) == FreeIndexLoop(block_size \div 2, 0)

FreeIndex(block_size) == FreeIndexLoop(block_size, 0)

BlockStartKeep(ptr, block_size) == ptr

BlockStartEven(ptr, block_size) == ptr - (ptr % (block_size \div 2))

BlockStartPage(ptr, block_size) == ptr - (ptr % PAGE_SIZE)

BlockStart(ptr, block_size) == ptr - (ptr % block_size)

(***************************************************************************)
(* What the caller knows about a request: the block it may use.  These are *)
(* the caller's bookkeeping, stated without the allocator's arithmetic.    *)
(***************************************************************************)
Classes == {16, 32, 64, 128, 256, 512, 1024, 2048}

ClassOf(s) == CHOOSE c \in Classes : c >= s /\ \A d \in Classes : d >= s => c <= d

PageCeil(s) == ((s + PAGE_SIZE - 1) \div PAGE_SIZE) * PAGE_SIZE

Extent(s) == IF s > LargeThreshold THEN PageCeil(s) ELSE ClassOf(s)

MaxStray == 1      \* calls outside the contract in one run

Inside(ptr, a) == a.base <= ptr /\ ptr < a.base + a.len

LiveSet == BagToSet(live)

Holders(ptr) == {a \in LiveSet : Inside(ptr, a)}

Held(ptr) == CHOOSE a \in Holders(ptr) : TRUE

Release(ptr) == IF Holders(ptr) = {} THEN live ELSE live (-) SetToBag({Held(ptr)})

\* The small block, held or released, that the caller knows ptr to lie in.
Owners(ptr) == {h \in handed : h.len <= LargeThreshold /\ Inside(ptr, h)}

Owner(ptr) == CHOOSE h \in Owners(ptr) : TRUE

Stray(ptr) == ptr # NULL /\ Holders(ptr) = {}

Counted(ptr) ==
    /\ Stray(ptr) => strays < MaxStray
    /\ strays' = IF Stray(ptr) THEN strays + 1 ELSE strays

\* The number of blocks of class c in the bag b of held allocations.
HeldOf(b, c) == BagCardinality([a \in {x \in BagToSet(b) : x.len = c} |-> b[a]])

NoCall ==
    [op |-> "none", arg |-> 0, ret |-> 0, returned |-> FALSE, expect |-> NULL, bs |-> 0]

(***************************************************************************)
(* log_message followed by exit(2).  write() may put the message on the    *)
(* error channel, or fail, and then log_message tries "logging failed"     *)
(* (which may fail too) and exits with 2 itself.                           *)
(***************************************************************************)
ExitStatusOne == 2 - 1

MmapExitStatus == 2

Fatal(size, message) ==
    /\ pc' = "exited"
    /\ exit_status' = MmapExitStatus
    /\ logged' = Append(logged, message)
    /\ stderr' \in {Append(stderr, message), Append(stderr, "logging failed\n"), stderr}
    /\ call' = [NoCall EXCEPT !.op = "xxmalloc", !.arg = size]
    /\ UNCHANGED <<lists, mem, mapped, live, lastFreed, leaked, handed, strays, client,
                   quota, peak, since, doubled, threads>>

(***************************************************************************)
(* xxmalloc.                                                               *)
(***************************************************************************)
ListSlot(size) == round_power_2(size) - 4

BlockSizeDoubled(size) == 2 * round_power_2(size)

BlockSizeFor(size) == 2 ^ round_power_2(size)

Returned(size, p, freed) ==
    /\ call' = [NoCall EXCEPT !.op = "xxmalloc", !.arg = size, !.ret = p,
                              !.returned = TRUE, !.expect = freed]
    /\ live' = live (+) SetToBag({[base |-> p, len |-> Extent(size)]})
    /\ handed' = handed \cup {[base |-> p, len |-> Extent(size)]}
    /\ peak' = IF Extent(size) \in Classes /\ HeldOf(live', Extent(size)) > peak[Extent(size)]
               THEN [peak EXCEPT ![Extent(size)] = HeldOf(live', Extent(size))]
               ELSE peak
    /\ since' = IF Extent(size) \in Classes
                THEN [since EXCEPT ![Extent(size)] = {}]
                ELSE since
    /\ UNCHANGED <<leaked, strays, pc, exit_status, logged, stderr, client, quota, doubled,
                   threads>>

LargePath(size) ==
    \E p \in mmap(ROUND_UP(size, PAGE_SIZE)) :
        IF p = MAP_FAILED
        THEN Fatal(size, "mmap failed! Giving up.\n")
        ELSE /\ mapped' = mapped \cup PagesAt(p, ROUND_UP(size, PAGE_SIZE))
             /\ Returned(size, p, NULL)
             /\ UNCHANGED <<lists, mem, lastFreed>>

TakeFirstKeepHead(size, l, m) ==
    /\ lists' = l
    /\ mem' = m
    /\ lastFreed' = [lastFreed EXCEPT ![ClassOf(size)] = NULL]
    /\ Returned(size, l[ListSlot(size)], lastFreed[ClassOf(size)])

TakeFirst(size, l, m) ==
    /\ lists' = [l EXCEPT ![ListSlot(size)] = Load(m, l[ListSlot(size)])]
    /\ mem' = m
    /\ lastFreed' = [lastFreed EXCEPT ![ClassOf(size)] = NULL]
    /\ Returned(size, l[ListSlot(size)], lastFreed[ClassOf(size)])

SmallPathEager(size) ==
    \E p \in mmap(PAGE_SIZE) :
        IF p = MAP_FAILED
        THEN Fatal(size, "mmap failed\n")
        ELSE /\ mapped' = mapped \cup PagesAt(p, PAGE_SIZE)
             /\ TakeFirst(size,
                          [lists EXCEPT ![ListSlot(size)] = p + BlockSizeFor(size)],
                          Carve(mem, p, BlockSizeFor(size)))

SmallPath(size) ==
    IF lists[ListSlot(size)] = NULL
    THEN \E p \in mmap(PAGE_SIZE) :
            IF p = MAP_FAILED
            THEN Fatal(size, "mmap failed\n")
            ELSE /\ mapped' = mapped \cup PagesAt(p, PAGE_SIZE)
                 /\ TakeFirst(size,
                              [lists EXCEPT ![ListSlot(size)] = p + BlockSizeFor(size)],
                              Carve(mem, p, BlockSizeFor(size)))
    ELSE /\ TakeFirst(size, lists, mem)
         /\ UNCHANGED mapped

xxmalloc(size) ==
    /\ pc = "running"
    /\ BagCardinality(live) < quota
    /\ IF Above(size, LargeThreshold) THEN LargePath(size) ELSE SmallPath(size)

(***************************************************************************)
(* xxfree.                                                                 *)
(***************************************************************************)
FreeReturned(ptr, block_size) ==
    /\ call' = [NoCall EXCEPT !.op = "xxfree", !.arg = ptr, !.returned = TRUE,
                              !.bs = block_size]
    /\ live' = Release(ptr)
    /\ lastFreed' =
         IF Owners(ptr) # {}
         THEN [lastFreed EXCEPT ![Owner(ptr).len] = Owner(ptr).base]
         ELSE lastFreed
    /\ since' =
         IF Owners(ptr) # {}
         THEN [since EXCEPT ![Owner(ptr).len] = @ \cup {Owner(ptr).base}]
         ELSE since
    /\ doubled' =
         IF Owners(ptr) # {} /\ Owner(ptr).base \in since[Owner(ptr).len]
         THEN [doubled EXCEPT ![Owner(ptr).len] = Owner(ptr).base]
         ELSE doubled
    /\ leaked' =
         IF Holders(ptr) # {} /\ Held(ptr).len > LargeThreshold
         THEN leaked \cup {[base |-> Held(ptr).base, len |-> Held(ptr).len,
                            tag |-> HeaderMagic(mem, Held(ptr).base) = MAGIC]}
         ELSE leaked
    /\ UNCHANGED <<mapped, handed, pc, exit_status, logged, stderr, client, quota, peak,
                   threads>>

Stopped(op, ptr, how) ==
    /\ pc' = how
    /\ call' = [NoCall EXCEPT !.op = op, !.arg = ptr]
    /\ UNCHANGED <<lists, mem, mapped, live, lastFreed, leaked, handed, exit_status,
                   logged, stderr, client, quota, peak,
                   since, doubled, threads>>

NotOursPush(ptr) ==
    /\ lists' = [lists EXCEPT ![NumLists - 1] = ptr]
    /\ mem' = Store(mem, ptr, lists[NumLists - 1])
    /\ FreeReturned(ptr, 0)

NotOurs(ptr) == FreeReturned(ptr, 0) /\ UNCHANGED <<lists, mem>>

PushGuarded(ptr, block_size) ==
    /\ lists' = [lists EXCEPT ![FreeIndex(block_size)] = BlockStart(ptr, block_size)]
    /\ mem' = IF lists[FreeIndex(block_size)] = BlockStart(ptr, block_size)
              THEN mem
              ELSE Store(mem, BlockStart(ptr, block_size), lists[FreeIndex(block_size)])
    /\ FreeReturned(ptr, block_size)

PushUnlinked(ptr, block_size) ==
    /\ lists' = [lists EXCEPT ![FreeIndex(block_size)] = BlockStart(ptr, block_size)]
    /\ mem' = Store(mem, BlockStart(ptr, block_size), NULL)
    /\ FreeReturned(ptr, block_size)

PushBehindHead(ptr, block_size) ==
    /\ lists' = IF lists[FreeIndex(block_size)] = NULL
                THEN [lists EXCEPT ![FreeIndex(block_size)] = BlockStart(ptr, block_size)]
                ELSE lists
    /\ mem' = IF lists[FreeIndex(block_size)] = NULL
              THEN Store(mem, BlockStart(ptr, block_size), NULL)
              ELSE Store(Store(mem, BlockStart(ptr, block_size),
                               Load(mem, lists[FreeIndex(block_size)])),
                         lists[FreeIndex(block_size)], BlockStart(ptr, block_size))
    /\ FreeReturned(ptr, block_size)

Push(ptr, block_size) ==
    /\ lists' = [lists EXCEPT ![FreeIndex(block_size)] = BlockStart(ptr, block_size)]
    /\ mem' = Store(mem, BlockStart(ptr, block_size), lists[FreeIndex(block_size)])
    /\ FreeReturned(ptr, block_size)

NeverNull(ptr) == FALSE

IsNull(ptr) == ptr = NULL

xxfree(ptr) ==
    /\ pc = "running"
    /\ Counted(ptr)
    /\ IF IsNull(ptr)
       THEN FreeReturned(ptr, 0) /\ UNCHANGED <<lists, mem>>
       ELSE IF ~Readable(PageBase(ptr))
       THEN Stopped("xxfree", ptr, "crashed")
       ELSE IF HeaderMagic(mem, PageBase(ptr)) # MAGIC
       THEN NotOurs(ptr)
       ELSE IF xxmalloc_usable_size(mem, ptr) = 0
       THEN FreeReturned(ptr, 0) /\ UNCHANGED <<lists, mem>>
       ELSE IF FreeIndex(xxmalloc_usable_size(mem, ptr)) = NoIndex
       THEN Stopped("xxfree", ptr, "hung")
       ELSE Push(ptr, xxmalloc_usable_size(mem, ptr))

(***************************************************************************)
(* A call of xxmalloc_usable_size.                                         *)
(***************************************************************************)
UsableSize(ptr) ==
    /\ pc = "running"
    /\ Counted(ptr)
    /\ IF ptr # NULL /\ ~Readable(PageBase(ptr))
       THEN Stopped("xxmalloc_usable_size", ptr, "crashed")
       ELSE /\ call' = [NoCall EXCEPT !.op = "xxmalloc_usable_size", !.arg = ptr,
                                      !.ret = xxmalloc_usable_size(mem, ptr),
                                      !.returned = TRUE]
            /\ UNCHANGED <<lists, mem, mapped, live, lastFreed, leaked, handed, pc,
                           exit_status, logged, stderr, client, quota, peak,
                   since, doubled, threads>>

(***************************************************************************)
(* The calling program.  Under Spec it keeps to the contract of xxfree: it *)
(* passes NULL or an address inside an allocation it holds.                *)
(***************************************************************************)
ClientSizes == {16, 2048, 5000}

LivePtrs == UNION {{a.base, a.base + a.len - 1} : a \in LiveSet}

\* The state at program start: lists[] is zero-initialised, nothing is mapped.
Fresh ==
    /\ lists = [i \in 0..(NumLists - 1) |-> NULL]
    /\ mem = <<>>
    /\ mapped = {}
    /\ live = EmptyBag
    /\ lastFreed = [c \in Classes |-> NULL]
    /\ leaked = {}
    /\ handed = {}
    /\ strays = 0
    /\ call = NoCall
    /\ pc = "running"
    /\ exit_status = 0
    /\ logged = <<>>
    /\ stderr = <<>>
    /\ peak = [c \in Classes |-> 0]
    /\ since = [c \in Classes |-> {}]
    /\ doubled = [c \in Classes |-> NULL]

Init ==
    /\ Fresh
    /\ threads = <<>>
    /\ quota = MaxLive
    /\ client = ClientSizes

Next ==
    \/ \E size \in client : xxmalloc(size)
    \/ \E ptr \in LivePtrs \cup {NULL} : xxfree(ptr)

Spec == Init /\ [][Next]_vars

(***************************************************************************)
(* SpecSize: a program that uses one request size, any size from 0 to      *)
(* MaxRequest.  Every size gets its first call on the fresh allocator; the *)
(* sizes at and next to the class boundaries go on calling without limit.  *)
(***************************************************************************)
MaxRequest == 2049

BoundarySizes == {0, 1} \cup {c + d : c \in Classes, d \in {-1, 0, 1}}

InitSize ==
    /\ Fresh
    /\ threads = <<>>
    /\ quota = MaxLive
    /\ client \in {{s} : s \in 0..MaxRequest}

NextSize ==
    \/ \E size \in client : (mapped = {} \/ size \in BoundarySizes) /\ xxmalloc(size)
    \/ \E ptr \in LivePtrs \cup {NULL} : xxfree(ptr)
    \/ \E ptr \in LivePtrs \cup {NULL} : UsableSize(ptr)

SpecSize == InitSize /\ [][NextSize]_vars

(***************************************************************************)
(* C1: for a request of 0..2048 bytes, the usable size of the block that   *)
(* xxmalloc returned is the smallest of the eight classes 16..2048 that is *)
(* at least the request: an exact boundary keeps its class, 0 gets 16.     *)
(***************************************************************************)
C1_SmallUsableSize ==
    (call.op = "xxmalloc" /\ call.returned /\ call.arg <= LargeThreshold) =>
        /\ xxmalloc_usable_size(mem, call.ret) = ClassOf(call.arg)
        /\ xxmalloc_usable_size(mem, call.ret) >= call.arg
        /\ xxmalloc_usable_size(mem, call.ret) >= 16

C1_Witness ==
    /\ call.op = "xxmalloc" /\ call.returned
    /\ call.arg = 1024
    /\ call.expect # NULL
    /\ xxmalloc_usable_size(mem, call.ret) = 1024

Disjoint(a, b) == a.base + a.len <= b.base \/ b.base + b.len <= a.base

(***************************************************************************)
(* C2: two allocations the caller holds never overlap, whatever their      *)
(* classes, when xxfree is only given NULL or addresses inside allocations *)
(* the caller holds (Spec); xxmalloc never returns an address inside a     *)
(* block that is still held.                                               *)
(***************************************************************************)
C2_Disjoint ==
    \A a \in LiveSet :
        /\ CopiesIn(a, live) = 1
        /\ \A b \in LiveSet : a # b => Disjoint(a, b)

C2_Witness ==
    /\ call.op = "xxmalloc" /\ call.returned /\ call.expect # NULL
    /\ \E a, b \in LiveSet : a.len = 16 /\ b.len = 16 /\ a # b /\ a.base = call.ret

(***************************************************************************)
(* C3: LIFO reuse.  The block of class c that the caller released last is  *)
(* what the next xxmalloc of class c returns, whatever calls on other      *)
(* classes and on large sizes come in between.                             *)
(***************************************************************************)
C3_LifoReuse ==
    (call.op = "xxmalloc" /\ call.returned /\ call.expect # NULL) =>
        call.ret = call.expect

C3_Witness ==
    /\ call.op = "xxmalloc" /\ call.returned /\ call.arg = 16
    /\ call.expect # NULL /\ call.ret = call.expect
    /\ lists[0] # NULL /\ lists[0] # call.ret + 16
    /\ \E a \in LiveSet : a.len # 16

(***************************************************************************)
(* C4: for a request above 2048 bytes the usable size of the returned      *)
(* mapping is at least the request and a multiple of the page size.        *)
(***************************************************************************)
C4_LargeUsableSize ==
    (call.op = "xxmalloc" /\ call.returned /\ call.arg > LargeThreshold) =>
        /\ xxmalloc_usable_size(mem, call.ret) >= call.arg
        /\ xxmalloc_usable_size(mem, call.ret) % PAGE_SIZE = 0

Aligned(a) == a.base % (IF a.len <= LargeThreshold THEN a.len ELSE PAGE_SIZE) = 0

(***************************************************************************)
(* C5: alignment.  A small block that xxmalloc returns starts at a         *)
(* multiple of its class's block size, also when it was released through a *)
(* pointer into its middle and then reused (the block start that xxfree    *)
(* pushes is such a multiple); a large mapping starts at a multiple of the *)
(* page size.                                                              *)
(***************************************************************************)
C5_Alignment ==
    /\ \A a \in LiveSet : Aligned(a)
    /\ (call.op = "xxmalloc" /\ call.returned) =>
           Aligned([base |-> call.ret, len |-> Extent(call.arg)])
    /\ (call.op = "xxfree" /\ call.bs # 0) =>
           \E i \in 0..(NumLists - 1) :
               16 * (2 ^ i) = call.bs /\ lists[i] # NULL /\ lists[i] % call.bs = 0

C5_Witness ==
    /\ call.op = "xxmalloc" /\ call.returned /\ call.arg = 16
    /\ call.expect # NULL /\ call.ret = call.expect /\ call.ret % 16 = 0
    /\ \E a \in LiveSet : a.len > LargeThreshold /\ a.base % PAGE_SIZE = 0

\* A step that releases a held large mapping whose first page is untagged.
LargeRelease ==
    /\ call'.op = "xxfree" /\ call'.returned
    /\ \E a \in LiveSet :
           /\ a.len > LargeThreshold /\ a.base = call'.arg
           /\ HeaderMagic(mem, a.base) # MAGIC

ListsInside(r) ==
    {i \in 0..(NumLists - 1) : lists[i] # NULL /\ Inside(lists[i], r)}

LinksInside(r) == {x \in DOMAIN mem : mem[x] # NULL /\ Inside(mem[x], r) /\ ~Inside(x, r)}

(***************************************************************************)
(* C6: releasing a large mapping whose first page does not start with the  *)
(* tag changes no free-list head and no link, the pages stay mapped, and   *)
(* no later xxmalloc returns an address inside the mapping.                *)
(***************************************************************************)
C6_LargeFreeNoOp ==
    /\ [][LargeRelease => (lists' = lists /\ mem' = mem /\ mapped' = mapped)]_vars
    /\ [][mapped \subseteq mapped']_vars
    /\ [](\A r \in leaked :
            ~r.tag =>
                /\ PagesAt(r.base, r.len) \subseteq mapped
                /\ ListsInside(r) = {}
                /\ LinksInside(r) = {}
                /\ \A a \in LiveSet : Disjoint(a, r))

C6_Witness ==
    /\ call.op = "xxmalloc" /\ call.returned
    /\ call.arg <= LargeThreshold
    /\ \E r \in leaked : ~r.tag
    /\ \E i \in 0..(NumLists - 1) : lists[i] # NULL

MmapMessages == {"mmap failed! Giving up.\n", "mmap failed\n"}

AnySizes == {1024, 3000}

ProbeOffsets == {0, 1024, 2049}

Unmapped == AllocPages \ mapped

ProbePages ==
    mapped \cup {ForeignPage} \cup {pg \in Unmapped : \A q \in Unmapped : pg <= q}

AnyPtrs == {NULL} \cup {pg * PAGE_SIZE + o : pg \in ProbePages, o \in ProbeOffsets}

CallerSizes == {0, 24, 1024}

CallerWrite(a, size) ==
    /\ pc = "running"
    /\ a.len > LargeThreshold
    /\ strays < MaxStray
    /\ strays' = strays + 1
    /\ mem' = WriteHeader(mem, a.base, size)
    /\ call' = [NoCall EXCEPT !.op = "write", !.arg = a.base, !.ret = size]
    /\ UNCHANGED <<lists, mapped, live, lastFreed, leaked, handed, pc, exit_status,
                   logged, stderr, client, quota, peak,
                   since, doubled, threads>>

InitAny ==
    /\ Fresh
    /\ threads = <<>>
    /\ quota = MaxLive
    /\ client \in {{s} : s \in AnySizes}

NextAny ==
    \/ \E size \in client : xxmalloc(size)
    \/ \E ptr \in AnyPtrs : xxfree(ptr)
    \/ \E ptr \in AnyPtrs : UsableSize(ptr)
    \/ \E a \in LiveSet, size \in CallerSizes : CallerWrite(a, size)

SpecAny == InitAny /\ [][NextAny]_vars

Tagged(m, ptr) == HeaderMagic(m, PageBase(ptr)) = MAGIC

FreeStep == call'.op = "xxfree" /\ call'.arg # NULL

C8_UntaggedFree == (FreeStep /\ ~Tagged(mem, call'.arg)) => (lists' = lists /\ mem' = mem)

C8_TaggedFree ==
    (FreeStep /\ call'.returned /\ Tagged(mem, call'.arg)) =>
        /\ call'.bs = xxmalloc_usable_size(mem, call'.arg)
        /\ call'.bs = HeaderSize(mem, PageBase(call'.arg))
        /\ call'.bs # 0 =>
               \E i \in 0..(NumLists - 1) :
                   lists'[i] = call'.arg - (call'.arg % call'.bs) /\ lists'[i] # NULL

C8_Query ==
    (call.op = "xxmalloc_usable_size" /\ call.returned) =>
        /\ (call.arg = NULL \/ ~Tagged(mem, call.arg)) => call.ret = 0
        /\ (call.arg # NULL /\ Tagged(mem, call.arg)) =>
               call.ret = HeaderSize(mem, PageBase(call.arg))

(***************************************************************************)
(* C8: the ownership-tag gate.  For an address other than NULL whose page  *)
(* does not begin with MAGIC, xxfree changes no free-list head and no word *)
(* of memory, and xxmalloc_usable_size returns 0; it returns 0 for NULL    *)
(* too.  For an address whose page begins with MAGIC, the block size that  *)
(* xxfree works with is what xxmalloc_usable_size returns for the address: *)
(* the size word of that page's header.                                    *)
(***************************************************************************)
C8_TagGate == [][C8_UntaggedFree /\ C8_TaggedFree]_vars /\ []C8_Query

C8_Witness ==
    /\ call.op = "xxmalloc_usable_size" /\ call.returned
    /\ call.arg # NULL /\ Holders(call.arg) # {}
    /\ ~Tagged(mem, call.arg) /\ HeaderSize(mem, PageBase(call.arg)) = 1024
    /\ call.ret = 0

NeverHanded(ptr) == ptr # NULL /\ \A h \in handed : ~Inside(ptr, h)

C9_ForeignFree ==
    (call'.op = "xxfree" /\ call'.returned /\ NeverHanded(call'.arg)) =>
        (lists' = lists /\ mem' = mem)

C9_ForeignQuery ==
    (call.op = "xxmalloc_usable_size" /\ call.returned /\ NeverHanded(call.arg)) =>
        call.ret = 0

(***************************************************************************)
(* C9: an address other than NULL that xxmalloc never returned and that    *)
(* lies in no block it ever returned (memory that is not the allocator's,  *)
(* the header block of a slab page, a never-allocated block) is tolerated: *)
(* xxfree leaves the table and the free lists as they were and             *)
(* xxmalloc_usable_size returns 0.                                         *)
(***************************************************************************)
C9_ForeignTolerated == [][C9_ForeignFree]_vars /\ []C9_ForeignQuery

(***************************************************************************)
(* C10: xxfree(NULL) has no effect in any state: the table, every link and *)
(* page header, the mappings and the process state stay as they are, so a  *)
(* second xxfree(NULL) finds the state the first one found.                *)
(***************************************************************************)
C10_FreeNullNoOp ==
    [][(call'.op = "xxfree" /\ call'.arg = NULL) =>
          /\ call'.returned
          /\ lists' = lists /\ mem' = mem /\ mapped' = mapped
          /\ live' = live /\ lastFreed' = lastFreed /\ leaked' = leaked
          /\ handed' = handed /\ strays' = strays /\ peak' = peak
          /\ since' = since /\ doubled' = doubled /\ threads' = threads
          /\ pc' = pc /\ exit_status' = exit_status
          /\ logged' = logged /\ stderr' = stderr]_vars

C10_Witness ==
    /\ call.op = "xxfree" /\ call.arg = NULL /\ call.returned
    /\ pc = "running"
    /\ live # EmptyBag
    /\ \E i \in 0..(NumLists - 1) : lists[i] # NULL /\ Load(mem, lists[i]) # NULL
    /\ strays > 0

\* The page source cannot serve an xxmalloc(size) made in this state.
Refused(size) ==
    IF Above(size, LargeThreshold)
    THEN mmap(ROUND_UP(size, PAGE_SIZE)) = {MAP_FAILED}
    ELSE lists[ListSlot(size)] = NULL /\ mmap(PAGE_SIZE) = {MAP_FAILED}

(***************************************************************************)
(* C11: an xxmalloc call that the page source cannot serve returns NULL to *)
(* its caller, and the program goes on running.                            *)
(***************************************************************************)
C11_NullOnFailure ==
    [][(call'.op = "xxmalloc" /\ Refused(call'.arg)) =>
          (call'.returned /\ call'.ret = NULL /\ pc' = "running")]_vars

\* What the code does instead: no xxmalloc call ever returns NULL.
NeverReturnsNull == (call.op = "xxmalloc" /\ call.returned) => call.ret # NULL

(***************************************************************************)
(* Reading a free list: the nodes met from head p along the next links, in *)
(* order, up to NULL or to the first node met twice.  The walk goes in     *)
(* runs of 16 nodes and takes at most one step more than there are words   *)
(* written, which is enough to meet a node twice when the list is a cycle. *)
(***************************************************************************)
RECURSIVE ListRun(_, _, _)
ListRun(m, p, k) ==
    IF k = 0 \/ p = NULL THEN <<>>
    ELSE <<p>> \o ListRun(m, Load(m, p), k - 1)

RECURSIVE ListWalk(_, _, _)
ListWalk(m, p, fuel) ==
    LET run == ListRun(m, p, 16)
    IN  IF Len(run) < 16 \/ fuel <= 16 THEN run
        ELSE run \o ListWalk(m, Load(m, run[16]), fuel - 16)

ListFrom(m, p) ==
    LET walk == ListWalk(m, p, Cardinality(DOMAIN m) + 1)
        Again(k) == \E j \in 1..(k - 1) : walk[j] = walk[k]
    IN  IF Cardinality({walk[k] : k \in 1..Len(walk)}) = Len(walk) THEN walk
        ELSE SubSeq(walk, 1, (CHOOSE k \in 1..Len(walk) :
                                 Again(k) /\ \A j \in 1..(k - 1) : ~Again(j)) - 1)

FreeList(i) == ListFrom(mem, lists[i])

ClassIndex(c) == CHOOSE i \in 0..(NumLists - 1) : 16 * (2 ^ i) = c

(***************************************************************************)
(* SpecCarve: a program that only allocates, up to MaxCarve allocations,   *)
(* so that no release comes between a carve and the allocations after it.  *)
(***************************************************************************)
MaxCarve == 256

CarveClients == {{16}, {100}, {1024}, {2048}, {600, 2048, 3000}}

InitCarve ==
    /\ Fresh
    /\ threads = <<>>
    /\ quota = MaxCarve
    /\ client \in CarveClients

NextCarve == \E size \in client : xxmalloc(size)

SpecCarve == InitCarve /\ [][NextCarve]_vars

\* A step in which a small xxmalloc that found its class's list empty returns.
CarveStep ==
    /\ call'.op = "xxmalloc" /\ call'.returned
    /\ call'.arg <= LargeThreshold
    /\ lists[ClassIndex(ClassOf(call'.arg))] = NULL

\* The page at p as the carve for block size B leaves it, the first block taken.
CarvedPage(p, B, n, i) ==
    /\ p % PAGE_SIZE = 0
    /\ mapped' = mapped \cup {p \div PAGE_SIZE}
    /\ Load(mem', p) = MAGIC
    /\ Load(mem', p + 8) = B
    /\ \A k \in 1..(n - 2) : Load(mem', p + k * B) = p + (k + 1) * B
    /\ Load(mem', p + (n - 1) * B) = NULL
    /\ call'.ret = p + B
    /\ ListFrom(mem', lists'[i]) = [k \in 1..(n - 2) |-> p + (k + 1) * B]
    /\ n = 2 => lists'[i] = NULL
    /\ \A j \in 0..(NumLists - 1) : j # i => lists'[j] = lists[j]
    /\ \A x \in DOMAIN mem : mem'[x] = mem[x]
    /\ \A x \in DOMAIN mem' : x \in DOMAIN mem \/ PageBase(x) = p

CarvePost ==
    \E pg \in AllocPages \ mapped :
        CarvedPage(pg * PAGE_SIZE, ClassOf(call'.arg), PAGE_SIZE \div ClassOf(call'.arg),
                   ClassIndex(ClassOf(call'.arg)))

\* The blocks of size B that xxmalloc has handed out of the page at p.
HandedIn(p, B) == {h \in handed : h.len = B /\ PageBase(h.base) = p}

\* With no release: the k-th block handed out of a page is its block k.
CarveOrder ==
    /\ \A h \in handed :
           h.len <= LargeThreshold =>
               \E k \in 1..(PAGE_SIZE \div h.len - 1) :
                   /\ h.base = PageBase(h.base) + k * h.len
                   /\ k <= Cardinality(HandedIn(PageBase(h.base), h.len))
    /\ (call.op = "xxmalloc" /\ call.returned /\ call.arg <= LargeThreshold) =>
           call.ret = PageBase(call.ret)
                      + ClassOf(call.arg)
                        * Cardinality(HandedIn(PageBase(call.ret), ClassOf(call.arg)))

(***************************************************************************)
(* C12: the slab carve.  A small xxmalloc that finds its class's list      *)
(* empty maps exactly one page, writes the header {MAGIC, class size} at   *)
(* its start, threads blocks 1..n-1 in ascending order with the last next  *)
(* NULL, returns block 1 and leaves exactly blocks 2..n-1 on the list (an  *)
(* empty list for class 2048); with no release in between, the allocations *)
(* of the class that follow return blocks 2, 3, ... n-1 in that order.     *)
(***************************************************************************)
C12_SlabCarve == [][CarveStep => CarvePost]_vars /\ []CarveOrder

C12_Witness ==
    /\ call.op = "xxmalloc" /\ call.returned /\ call.arg = 16
    /\ call.ret = PageBase(call.ret) + 255 * 16
    /\ lists[0] = NULL
    /\ Cardinality(handed) = 255

(***************************************************************************)
(* SpecSlab: a program that keeps to the contract of xxfree, as under      *)
(* Spec, and holds up to MaxSlab allocations, enough to fill a page of     *)
(* class 1024 (three usable blocks) and have a second one carved.          *)
(***************************************************************************)
MaxSlab == 4

SlabClients == {{1024}, {2048}}

InitSlab ==
    /\ Fresh
    /\ threads = <<>>
    /\ quota = MaxSlab
    /\ client \in SlabClients

NextSlab ==
    \/ \E size \in client : xxmalloc(size)
    \/ \E ptr \in LivePtrs \cup {NULL} : xxfree(ptr)

SpecSlab == InitSlab /\ [][NextSlab]_vars

\* What the caller knows of the slab pages: a page holds the small blocks
\* it was handed, all of one size.
SlabPages(B) == {PageBase(h.base) : h \in {x \in handed : x.len = B}}

UsableBlocks(B) ==
    {p + k * B : p \in SlabPages(B), k \in 1..(PAGE_SIZE \div B - 1)}

Nodes(i) == LET fl == FreeList(i) IN {fl[k] : k \in 1..Len(fl)}

\* The walk from the head of list i ends at NULL, not at a node met before.
Terminated(i) ==
    LET fl == FreeList(i)
    IN  IF fl = <<>> THEN lists[i] = NULL ELSE Load(mem, fl[Len(fl)]) = NULL

IsLive(b, B) == CopiesIn([base |-> b, len |-> B], live) > 0

Conserved(B) ==
    LET nodes == Nodes(ClassIndex(B))
        usable == UsableBlocks(B)
    IN  /\ Terminated(ClassIndex(B))
        /\ nodes \subseteq usable
        /\ \A b \in usable :
               /\ IsLive(b, B) # (b \in nodes)
               /\ CopiesIn([base |-> b, len |-> B], live) <= 1

\* A carve leaves every word written before and every held block as it was.
CarveKeeps ==
    CarveStep =>
        /\ \A x \in DOMAIN mem : x \in DOMAIN mem' /\ mem'[x] = mem[x]
        /\ \A a \in LiveSet : CopiesIn(a, live') >= CopiesIn(a, live)
        /\ \A B \in Classes : UsableBlocks(B) \subseteq UsableBlocks(B)'

(***************************************************************************)
(* C13: block conservation across pages.  When every xxfree gets NULL or   *)
(* an address inside a live allocation, every usable block of every slab   *)
(* page carved so far is either live or exactly once on its class's free   *)
(* list, never both; every free list ends at NULL and holds nothing but    *)
(* such blocks; the carve of a further page changes no word and no block   *)
(* of the earlier pages.                                                   *)
(***************************************************************************)
C13_Conservation == [](\A B \in Classes : Conserved(B)) /\ [][CarveKeeps]_vars

C13_Witness ==
    /\ call.op = "xxmalloc" /\ call.returned /\ call.arg = 1024
    /\ call.expect # NULL /\ call.ret = call.expect
    /\ Cardinality(SlabPages(1024)) = 2
    /\ \E a \in LiveSet : PageBase(a.base) # PageBase(call.ret)
    /\ \E b \in Nodes(6) : PageBase(b) # PageBase(call.ret)
    /\ PageBase(call.ret) = PageBase(lists[6])

(***************************************************************************)
(* SpecHanded: a program that passes xxfree NULL, a pointer xxmalloc       *)
(* returned at some time, or an address inside a small block it returned   *)
(* at some time: blocks it holds and blocks it released before (a double   *)
(* release; MaxStray bounds these).                                        *)
(***************************************************************************)
HandedClients == {{1024}, {2048, 5000}}

HandedPtrs ==
    {NULL} \cup {h.base : h \in handed}
           \cup {h.base + h.len - 1 : h \in {x \in handed : x.len <= LargeThreshold}}

InitHanded ==
    /\ Fresh
    /\ threads = <<>>
    /\ quota = MaxLive
    /\ client \in HandedClients

NextHanded ==
    \/ \E size \in client : xxmalloc(size)
    \/ \E ptr \in HandedPtrs : xxfree(ptr)

SpecHanded == InitHanded /\ [][NextHanded]_vars

HeaderKept(p, B) == Load(mem, p) = MAGIC /\ Load(mem, p + 8) = B

(***************************************************************************)
(* C14: header integrity.  When every xxfree argument is NULL, a pointer   *)
(* xxmalloc returned before or an address inside a small block it returned *)
(* before, every slab page keeps the tag and the block size written at the *)
(* carve, block 0 of a slab page is on no free list, and xxmalloc never    *)
(* returns the base of a slab page.                                        *)
(***************************************************************************)
C14_HeaderIntegrity ==
    /\ \A B \in Classes : \A p \in SlabPages(B) :
           /\ HeaderKept(p, B)
           /\ \A i \in 0..(NumLists - 1) : p \notin Nodes(i) /\ lists[i] # p
    /\ \A h \in handed : h.len <= LargeThreshold => h.base # PageBase(h.base)
    /\ (call.op = "xxmalloc" /\ call.returned /\ call.arg <= LargeThreshold) =>
           call.ret # PageBase(call.ret)

C14_Witness ==
    /\ call.op = "xxmalloc" /\ call.returned /\ call.arg = 1024
    /\ strays > 0
    /\ CopiesIn([base |-> call.ret, len |-> 1024], live) = 2
    /\ HeaderKept(PageBase(call.ret), 1024)
    /\ lists[6] = call.ret

\* Every block on list i lies in a page carved for class 16 * 2^i, whose
\* header says so.
PureLists ==
    \A i \in 0..(NumLists - 1) :
        LET pages == SlabPages(16 * (2 ^ i))
        IN  lists[i] = NULL \/ \A x \in Nodes(i) :
                /\ PageBase(x) \in pages
                /\ HeaderSize(mem, PageBase(x)) = 16 * (2 ^ i)

\* Every small block handed out lies in a page of its class, and a page has
\* one class.
PureReturn ==
    /\ \A h \in handed :
           h.len <= LargeThreshold =>
               Tagged(mem, h.base) /\ HeaderSize(mem, PageBase(h.base)) = h.len
    /\ \A h1, h2 \in handed :
           (h1.len <= LargeThreshold /\ h2.len <= LargeThreshold
              /\ PageBase(h1.base) = PageBase(h2.base)) => h1.len = h2.len
    /\ (call.op = "xxmalloc" /\ call.returned /\ call.arg <= LargeThreshold) =>
           HeaderSize(mem, PageBase(call.ret)) = ClassOf(call.arg)

\* xxfree pushes the block onto the list of its page's header size, and
\* touches no other list.
PureFree ==
    (call'.op = "xxfree" /\ call'.returned /\ call'.bs # 0) =>
        /\ HeaderSize(mem, PageBase(call'.arg)) \in Classes
        /\ LET B == HeaderSize(mem, PageBase(call'.arg))
               i == ClassIndex(B)
           IN  /\ lists'[i] = call'.arg - (call'.arg % B)
               /\ PageBase(lists'[i]) = PageBase(call'.arg)
               /\ \A j \in 0..(NumLists - 1) : j # i => lists'[j] = lists[j]

(***************************************************************************)
(* C15: size-class purity.  Every block on the free list at index i lies   *)
(* in a slab page whose header block size is 16 * 2^i; every block that    *)
(* xxmalloc returns for a class comes from such a page; xxfree pushes a    *)
(* block onto index log2(header block size) - 4 of the page that contains  *)
(* it, so no block gets onto the list of another class.                    *)
(***************************************************************************)
C15_Purity == []PureLists /\ []PureReturn /\ [][PureFree]_vars

C15_Witness ==
    /\ call.op = "xxfree" /\ call.returned /\ call.bs = 2048
    /\ lists[7] = call.arg - (call.arg % 2048)
    /\ call.arg # lists[7]
    /\ Load(mem, lists[7]) # NULL
    /\ \A i \in 0..(NumLists - 2) : lists[i] = NULL
    /\ \E a \in LiveSet : a.len > LargeThreshold

(***************************************************************************)
(* SpecInterior: a program that uses one small class and passes xxfree     *)
(* addresses inside the blocks it holds: every address of a block of up to *)
(* 64 bytes, and for the larger blocks the addresses at and next to the    *)
(* start, a word boundary, the middle and the end.                         *)
(***************************************************************************)
MaxInterior == 2

InteriorOffsets(B) ==
    IF 64 * B <= PAGE_SIZE THEN 0..(B - 1)
    ELSE {0, 1, 7, 8, B \div 2 - 1, B \div 2, B - 2, B - 1}

InteriorPtrs == UNION {{a.base + k : k \in InteriorOffsets(a.len)} : a \in LiveSet}

InitInterior ==
    /\ Fresh
    /\ threads = <<>>
    /\ quota = MaxInterior
    /\ client \in {{c} : c \in Classes}

NextInterior ==
    \/ \E size \in client : xxmalloc(size)
    \/ \E ptr \in InteriorPtrs : xxfree(ptr)

SpecInterior == InitInterior /\ [][NextInterior]_vars

\* The state that xxfree(a.base) leaves: block a is the head of its class's
\* list, its next is the head before, and nothing else has changed.
FreedAtBase(a) ==
    /\ call'.returned
    /\ lists' = [lists EXCEPT ![ClassIndex(a.len)] = a.base]
    /\ Load(mem', a.base) = lists[ClassIndex(a.len)]
    /\ DOMAIN mem' = DOMAIN mem \cup {a.base}
    /\ \A x \in DOMAIN mem : x # a.base => mem'[x] = mem[x]
    /\ live' = live (-) SetToBag({a})
    /\ mapped' = mapped /\ pc' = pc /\ handed' = handed

InteriorFree ==
    \A a \in LiveSet :
        (call'.op = "xxfree" /\ a.len <= LargeThreshold /\ Inside(call'.arg, a)) =>
            FreedAtBase(a)

\* What xxfree and xxmalloc_usable_size compute from an address, for every
\* address of every live small block: the block size and the block start.
InteriorSame ==
    \A a \in LiveSet :
        a.len <= LargeThreshold =>
            \A k \in 0..(a.len - 1) :
                /\ xxmalloc_usable_size(mem, a.base + k) = a.len
                /\ BlockStart(a.base + k, xxmalloc_usable_size(mem, a.base + k)) = a.base

(***************************************************************************)
(* C16: interior-pointer release.  For a live small block with start b and *)
(* block size B and every k in 0..B-1, xxfree(b + k) leaves the state that *)
(* xxfree(b) leaves: b is the head of its class's list and its next is the *)
(* head before; xxmalloc_usable_size(b + k) is B, as it is for b.          *)
(***************************************************************************)
C16_InteriorRelease == [][InteriorFree]_vars /\ []InteriorSame

C16_Witness ==
    /\ call.op = "xxfree" /\ call.returned /\ call.bs = 64
    /\ call.arg % 64 = 37
    /\ lists[2] = call.arg - 37
    /\ Load(mem, lists[2]) # NULL /\ Load(mem, lists[2]) # lists[2] + 64
    /\ live # EmptyBag

\* A returned xxfree of an address in a small block the caller was handed.
ReleaseStep == call'.op = "xxfree" /\ call'.returned /\ Owners(call'.arg) # {}

\* The block p heads list i and its next link is p itself.
SelfLoop(i, p) == p # NULL /\ lists[i] = p /\ Load(mem, p) = p

\* The same, and the nodes of list i, in the state after the step.
SelfLoopNext(i, p) == p # NULL /\ lists'[i] = p /\ Load(mem', p) = p

NodesNext(i) == LET fl == ListFrom(mem', lists'[i]) IN {fl[k] : k \in 1..Len(fl)}

\* The second release of a block with no xxmalloc of its class in between
\* leaves a self-loop at the head of the class's list.
DoubleLoops ==
    (ReleaseStep /\ Owner(call'.arg).base \in since[Owner(call'.arg).len]) =>
        SelfLoopNext(ClassIndex(Owner(call'.arg).len), Owner(call'.arg).base)

\* From a double release on, every xxmalloc of the class returns the block,
\* carves nothing, and the list reaches no other block.
DoubleForever ==
    \A c \in Classes :
        doubled[c] # NULL =>
            /\ (call'.op = "xxmalloc" /\ call'.arg <= LargeThreshold
                    /\ ClassOf(call'.arg) = c) =>
                   (call'.returned /\ call'.ret = doubled[c] /\ mapped' = mapped)
            /\ Nodes(ClassIndex(c)) = {doubled[c]}

(***************************************************************************)
(* C17 as stated: calling xxfree twice on the same small block p with no   *)
(* xxmalloc of that class in between makes p's next link point to p, a     *)
(* self-loop at the head of the class's list; from then on every xxmalloc  *)
(* of the class returns p, no new page is carved for the class, and the    *)
(* blocks that were on the list before are unreachable.                    *)
(***************************************************************************)
C17_DoubleRelease == [][DoubleLoops /\ DoubleForever]_vars

\* The second of two releases of a block in a row: the caller's last release
\* in the class was this block, and no xxmalloc of the class came since.
InARow ==
    /\ ReleaseStep
    /\ lastFreed[Owner(call'.arg).len] = Owner(call'.arg).base

RowLoops ==
    InARow =>
        /\ SelfLoopNext(ClassIndex(Owner(call'.arg).len), Owner(call'.arg).base)
        /\ NodesNext(ClassIndex(Owner(call'.arg).len)) = {Owner(call'.arg).base}

\* While the self-loop is at the head of list i, an xxmalloc of the class
\* returns the looping block, leaves the loop in place and carves nothing.
LoopServes ==
    \A i \in 0..(NumLists - 1) :
        (SelfLoop(i, lists[i]) /\ call'.op = "xxmalloc" /\ call'.arg <= LargeThreshold
            /\ ClassIndex(ClassOf(call'.arg)) = i) =>
               /\ call'.returned /\ call'.ret = lists[i]
               /\ SelfLoopNext(i, lists[i])
               /\ lists'[i] = lists[i]
               /\ mapped' = mapped
               /\ CopiesIn([base |-> lists[i], len |-> ClassOf(call'.arg)], live')
                    = CopiesIn([base |-> lists[i], len |-> ClassOf(call'.arg)], live) + 1

(***************************************************************************)
(* C17 as amended: calling xxfree twice in a row on the same small block p *)
(* (no xxmalloc and no other xxfree of the class in between) makes p's     *)
(* next link point to p, a self-loop at the head of the class's list, and  *)
(* the blocks that were on the list before are unreachable; while the      *)
(* self-loop is at the head of the list, every xxmalloc of the class       *)
(* returns p, so that allocations live at the same time share the block,   *)
(* and no page is carved for the class.                                    *)
(***************************************************************************)
C17_SelfLoop == [][RowLoops /\ LoopServes]_vars

C17_Witness ==
    /\ call.op = "xxmalloc" /\ call.returned /\ call.arg = 1024
    /\ doubled[1024] = call.ret
    /\ SelfLoop(6, call.ret)
    /\ CopiesIn([base |-> call.ret, len |-> 1024], live) = 2
    /\ Cardinality(mapped) = 1
    /\ \E q \in UsableBlocks(1024) : ~IsLive(q, 1024) /\ q \notin Nodes(6)

\* The pages that begin with the header of a slab page of block size B.
TaggedPages(B) ==
    {pg \in mapped : HeaderMagic(mem, pg * PAGE_SIZE) = MAGIC
                     /\ HeaderSize(mem, pg * PAGE_SIZE) = B}

SmallCall == call'.op = "xxmalloc" /\ call'.arg <= LargeThreshold

\* No step unmaps a page; only xxmalloc maps one.
OnlyAdded ==
    /\ mapped \subseteq mapped'
    /\ mapped' # mapped => (call'.op = "xxmalloc" /\ call'.returned)

\* A small xxmalloc that returns maps a page exactly when it found its list
\* empty, and then one page; one that found the list empty and maps nothing
\* is one that mmap refused, and it does not return.
OneIfEmpty ==
    SmallCall =>
        /\ call'.returned =>
               /\ (mapped' # mapped) = (lists[ClassIndex(ClassOf(call'.arg))] = NULL)
               /\ Cardinality(mapped' \ mapped) <= 1
        /\ (lists[ClassIndex(ClassOf(call'.arg))] = NULL /\ ~call'.returned) =>
               (pc' = "exited" /\ mmap(PAGE_SIZE) = {MAP_FAILED})

\* A page is carved for a class only when every usable block of the class
\* is live.
CarveWhenFull ==
    CarveStep => \A b \in UsableBlocks(ClassOf(call'.arg)) : IsLive(b, ClassOf(call'.arg))

\* ceil(peak / (n - 1)) slab pages per class.
PagesForPeak ==
    \A B \in Classes :
        Cardinality(TaggedPages(B))
          = (peak[B] + (PAGE_SIZE \div B - 1) - 1) \div (PAGE_SIZE \div B - 1)

(***************************************************************************)
(* C18: pages are only ever added.  No step unmaps a page; a small         *)
(* xxmalloc maps a new page exactly when its class's list is empty at the  *)
(* call, and then one page; when every xxfree gets NULL or an address      *)
(* inside a live allocation, a page is carved for a class only when every  *)
(* usable block of the class's pages is live, and the number of slab pages *)
(* of a class with n blocks per page is ceil(peak / (n - 1)), peak being   *)
(* the most blocks of the class that were live at one time.                *)
(***************************************************************************)
C18_PagesOnlyAdded == [][OnlyAdded /\ OneIfEmpty /\ CarveWhenFull]_vars /\ []PagesForPeak

C18_Witness ==
    /\ Cardinality(TaggedPages(1024)) = 2
    /\ peak[1024] = 4
    /\ HeldOf(live, 1024) = 1
    /\ call.op = "xxfree" /\ call.returned /\ call.bs = 1024

(***************************************************************************)
(* Two threads in the allocator at once.  Nothing in allocator.c locks     *)
(* lists[] or the blocks, so a call is a sequence of separate reads and    *)
(* writes of shared memory and the threads' steps interleave freely.  Each *)
(* step below holds at most one access to shared state:                    *)
(*   xxmalloc  line 85 (read lists[i]), lines 91-125 (mmap, carve the      *)
(*             still private page, store lists[i]), line 129 (read         *)
(*             lists[i] again -- the accesses are plain, so the build may  *)
(*             also keep the value the thread already has), line 138's     *)
(*             load of block->next, line 138's store and the return;       *)
(*   xxfree    lines 149-177 (header reads, which no call changes once     *)
(*             the page is published), line 180 (read lists[accum]), and   *)
(*             the stores of lines 186 and 189, which are independent and  *)
(*             may become visible in either order.                         *)
(***************************************************************************)
Threads == {1, 2}

MaxRaceCalls == 2      \* calls one thread makes in a run

IdleThread ==
    [pc |-> "idle", arg |-> 0, list |-> NULL, block |-> NULL, next |-> NULL,
     idx |-> 0, pending |-> {}, held |-> {}, calls |-> 0, raced |-> FALSE]

Busy(t) == threads[t].pc # "idle"

\* Thread t takes a step to the locals rec.  raced records, for both
\* threads, that t stepped while another thread was inside a call.
Moves(t, rec) ==
    threads' = [u \in Threads |->
                   LET overlap == \E v \in Threads \ {t} : Busy(v)
                   IN  IF u = t
                       THEN [rec EXCEPT !.raced = @ \/ overlap]
                       ELSE [threads[u] EXCEPT !.raced = @ \/ overlap]]

At(t, where) == pc = "running" /\ threads[t].pc = where

RaceCallMalloc(t, size) ==
    /\ At(t, "idle")
    /\ threads[t].calls < MaxRaceCalls
    /\ size <= LargeThreshold
    /\ Moves(t, [threads[t] EXCEPT !.pc = "m_read", !.arg = size, !.calls = @ + 1])
    /\ UNCHANGED <<lists, mem, mapped, live, lastFreed, leaked, handed, strays, call, pc,
                   exit_status, logged, stderr, client, quota, peak, since, doubled>>

\* line 85
RaceRead(t) ==
    /\ At(t, "m_read")
    /\ Moves(t, [threads[t] EXCEPT !.list = lists[ListSlot(threads[t].arg)],
                                   !.pc = IF lists[ListSlot(threads[t].arg)] = NULL
                                          THEN "m_carve" ELSE "m_reread"])
    /\ UNCHANGED <<lists, mem, mapped, live, lastFreed, leaked, handed, strays, call, pc,
                   exit_status, logged, stderr, client, quota, peak, since, doubled>>

\* lines 91-126
RaceCarve(t) ==
    /\ At(t, "m_carve")
    /\ \E p \in mmap(PAGE_SIZE) :
          IF p = MAP_FAILED
          THEN Fatal(threads[t].arg, "mmap failed\n")
          ELSE /\ mapped' = mapped \cup PagesAt(p, PAGE_SIZE)
               /\ mem' = Carve(mem, p, BlockSizeFor(threads[t].arg))
               /\ lists' = [lists EXCEPT ![ListSlot(threads[t].arg)] =
                                            p + BlockSizeFor(threads[t].arg)]
               /\ Moves(t, [threads[t] EXCEPT !.list = p + BlockSizeFor(threads[t].arg),
                                              !.pc = "m_reread"])
               /\ UNCHANGED <<live, lastFreed, leaked, handed, strays, call, pc,
                              exit_status, logged, stderr, client, quota, peak, since,
                              doubled>>

\* lines 129-135: the value in memory, or the one the thread already has
Reread(l, known, i) == {l[i], known}

RaceReread(t) ==
    /\ At(t, "m_reread")
    /\ \E v \in Reread(lists, threads[t].list, ListSlot(threads[t].arg)) :
          Moves(t, [threads[t] EXCEPT !.block = v, !.pc = "m_load"])
    /\ UNCHANGED <<lists, mem, mapped, live, lastFreed, leaked, handed, strays, call, pc,
                   exit_status, logged, stderr, client, quota, peak, since, doubled>>

\* line 138, right-hand side: block->next; block may be NULL by now
RaceLoad(t) ==
    /\ At(t, "m_load")
    /\ IF threads[t].block = NULL \/ ~Readable(threads[t].block)
       THEN /\ pc' = "crashed"
            /\ UNCHANGED threads
       ELSE /\ Moves(t, [threads[t] EXCEPT !.next = Load(mem, threads[t].block),
                                           !.pc = "m_store"])
            /\ UNCHANGED pc
    /\ UNCHANGED <<lists, mem, mapped, live, lastFreed, leaked, handed, strays, call,
                   exit_status, logged, stderr, client, quota, peak, since, doubled>>

PopStoreKeep(l, i, next) == l

\* line 138, the store to lists[list_index - 4]
PopStore(l, i, next) == [l EXCEPT ![i] = next]

\* lines 138-140
RaceStore(t) ==
    /\ At(t, "m_store")
    /\ lists' = PopStore(lists, ListSlot(threads[t].arg), threads[t].next)
    /\ live' = live (+) SetToBag({[base |-> threads[t].block,
                                   len |-> ClassOf(threads[t].arg)]})
    /\ handed' = handed \cup {[base |-> threads[t].block, len |-> ClassOf(threads[t].arg)]}
    /\ Moves(t, [threads[t] EXCEPT !.held = @ \cup {threads[t].block}, !.pc = "idle"])
    /\ UNCHANGED <<mem, mapped, lastFreed, leaked, strays, call, pc,
                   exit_status, logged, stderr, client, quota, peak, since, doubled>>

\* A thread releases a block it holds, by its base.
RaceCallFree(t, ptr) ==
    /\ At(t, "idle")
    /\ threads[t].calls < MaxRaceCalls
    /\ ptr \in threads[t].held
    /\ live' = live (-) SetToBag({[base |-> ptr, len |-> xxmalloc_usable_size(mem, ptr)]})
    /\ Moves(t, [threads[t] EXCEPT !.pc = "f_check", !.arg = ptr, !.calls = @ + 1,
                                   !.held = @ \ {ptr}])
    /\ UNCHANGED <<lists, mem, mapped, lastFreed, leaked, handed, strays, call, pc,
                   exit_status, logged, stderr, client, quota, peak, since, doubled>>

\* lines 149-177
RaceFreeCheck(t) ==
    /\ At(t, "f_check")
    /\ LET ptr == threads[t].arg
           block_size == xxmalloc_usable_size(mem, ptr)
       IN  IF ptr = NULL \/ block_size = 0 \/ FreeIndex(block_size) = NoIndex
           THEN Moves(t, [threads[t] EXCEPT !.pc = "idle"])
           ELSE Moves(t, [threads[t] EXCEPT !.idx = FreeIndex(block_size),
                                            !.block = BlockStart(ptr, block_size),
                                            !.pc = "f_read"])
    /\ UNCHANGED <<lists, mem, mapped, live, lastFreed, leaked, handed, strays, call, pc,
                   exit_status, logged, stderr, client, quota, peak, since, doubled>>

\* lines 180-183
RaceFreeRead(t) ==
    /\ At(t, "f_read")
    /\ Moves(t, [threads[t] EXCEPT !.list = lists[threads[t].idx],
                                   !.pending = {"head", "link"}, !.pc = "f_store"])
    /\ UNCHANGED <<lists, mem, mapped, live, lastFreed, leaked, handed, strays, call, pc,
                   exit_status, logged, stderr, client, quota, peak, since, doubled>>

\* line 186 (w = "head") and line 189 (w = "link")
RaceFreeStore(t, w) ==
    /\ At(t, "f_store")
    /\ w \in threads[t].pending
    /\ IF w = "head"
       THEN /\ lists' = [lists EXCEPT ![threads[t].idx] = threads[t].block]
            /\ UNCHANGED mem
       ELSE /\ mem' = Store(mem, threads[t].block, threads[t].list)
            /\ UNCHANGED lists
    /\ Moves(t, [threads[t] EXCEPT !.pending = @ \ {w},
                                   !.pc = IF threads[t].pending = {w}
                                          THEN "idle" ELSE "f_store"])
    /\ UNCHANGED <<mapped, live, lastFreed, leaked, handed, strays, call, pc,
                   exit_status, logged, stderr, client, quota, peak, since, doubled>>

RaceClients == {{1024}, {2048}}

InitRace ==
    /\ Fresh
    /\ quota = MaxLive
    /\ client \in RaceClients
    /\ threads = [t \in Threads |-> IdleThread]

NextRace ==
    \E t \in Threads :
        \/ \E size \in client : RaceCallMalloc(t, size)
        \/ RaceRead(t)
        \/ RaceCarve(t)
        \/ RaceReread(t)
        \/ RaceLoad(t)
        \/ RaceStore(t)
        \/ \E ptr \in threads[t].held : RaceCallFree(t, ptr)
        \/ RaceFreeCheck(t)
        \/ RaceFreeRead(t)
        \/ \E w \in {"head", "link"} : RaceFreeStore(t, w)

SpecRace == InitRace /\ [][NextRace]_vars

Quiet == pc = "running" /\ \A t \in Threads : ~Busy(t)

Overlapped == \E t \in Threads : threads[t].raced

\* Both threads hold the same block.
SameBlock == \E t \in Threads, u \in Threads : t # u /\ threads[t].held \cap threads[u].held # {}

\* A usable block of a carved page that no thread holds and no list reaches.
Dropped(B) ==
    LET nodes == Nodes(ClassIndex(B))
    IN  {p * PAGE_SIZE + k * B : p \in TaggedPages(B), k \in 1..(PAGE_SIZE \div B - 1)}
          \ (nodes \cup UNION {threads[t].held : t \in Threads})

\* While no call has overlapped another, the heap between calls is whole.
SerialSound ==
    (Quiet /\ ~Overlapped) =>
        /\ ~SameBlock
        /\ \A B \in Classes : Dropped(B) = {} /\ Terminated(ClassIndex(B))

(***************************************************************************)
(* C19: unsynchronised concurrent use races.  With two threads in xxmalloc *)
(* (or xxmalloc and xxfree) of one size class, as long as no call overlaps *)
(* another no block is held twice and no block is dropped; with their      *)
(* accesses to the list head interleaved, both xxmalloc calls can return   *)
(* the same block (C19_Witness) and an update to the head can be lost: a   *)
(* freshly carved page's list (C19_Witness) or a released block            *)
(* (LostRelease) is in no list and in no thread's hands.                   *)
(***************************************************************************)
C19_Races == []SerialSound

C19_Witness ==
    /\ Quiet /\ Overlapped
    /\ SameBlock
    /\ \E B \in client : Dropped(B) # {} /\ Cardinality(TaggedPages(B)) = 2

\* A block released by one thread while the other was in xxmalloc ends up
\* dropped, on the only page of its class.
LostRelease ==
    /\ Quiet /\ Overlapped
    /\ \E B \in client :
          /\ Cardinality(TaggedPages(B)) = 1
          /\ \E t \in Threads : threads[t].calls = 2 /\ threads[t].held = {}
          /\ Dropped(B) # {}

(***************************************************************************)
(* The large path at the edges of its range: requests just above 2048, at  *)
(* and around multiples of the page, and within two pages of 2^64, from a  *)
(* program that also takes and releases blocks of class 1024, so that the  *)
(* free lists have heads and links to be left alone.                       *)
(***************************************************************************)
LargeSizes ==
    {2049, 4095, 4096, 4097, 8191, 8192, 8193, 12288,
     Top(1), Top(4095), Top(4096), Top(4097), Top(8192)}

InitLarge ==
    /\ Fresh
    /\ threads = <<>>
    /\ quota = MaxLive
    /\ client = {1024} \cup LargeSizes

NextLarge ==
    \/ \E size \in client : xxmalloc(size)
    \/ \E ptr \in LivePtrs : xxfree(ptr)

SpecLarge == InitLarge /\ [][NextLarge]_vars

LargeReturn == call'.op = "xxmalloc" /\ call'.returned /\ Above(call'.arg, LargeThreshold)

\* The pages of the smallest multiple of 4096 that is >= s, from base p.
CeilPages(p, s) ==
    {p \div PAGE_SIZE + j :
        j \in 0..((CHOOSE n \in 1..(NumPages + 1) :
                      n * PAGE_SIZE >= s /\ (n - 1) * PAGE_SIZE < s) - 1)}

LargeExact ==
    LargeReturn =>
        /\ call'.arg > LargeThreshold
        /\ call'.arg <= NumPages * PAGE_SIZE
        /\ call'.ret % PAGE_SIZE = 0
        /\ CeilPages(call'.ret, call'.arg) \cap mapped = {}
        /\ mapped' = mapped \cup CeilPages(call'.ret, call'.arg)
        /\ mem' = mem
        /\ \A a \in DOMAIN mem' : a \div PAGE_SIZE \notin CeilPages(call'.ret, call'.arg)
        /\ HeaderMagic(mem', call'.ret) # MAGIC
        /\ lists' = lists

\* A size within a page of 2^64 rounds up to 0; the call does not return.
NoWrappedReturn ==
    (call'.op = "xxmalloc" /\ call'.arg < 0) =>
        (~call'.returned /\ pc' = "exited" /\ mapped' = mapped)

(***************************************************************************)
(* C20: the large path.  For every size s > 2048 as a 64-bit unsigned      *)
(* integer, an xxmalloc(s) that returns has mapped exactly the pages of    *)
(* the smallest multiple of 4096 that is >= s, fresh, and returns their    *)
(* base; it writes nothing (no header in the mapping, every free-list link *)
(* as it was) and leaves the eight list heads unchanged; a call whose      *)
(* rounded length wraps around 2^64 does not return at all.                *)
(***************************************************************************)
C20_LargePath == [][LargeExact /\ NoWrappedReturn]_vars

C20_Witness ==
    /\ call.op = "xxmalloc" /\ call.returned /\ call.arg = 4096
    /\ Cardinality(mapped) = 2
    /\ lists[ClassIndex(1024)] # NULL
    /\ Load(mem, lists[ClassIndex(1024)]) # NULL
    /\ HeaderMagic(mem, call.ret) # MAGIC

\* A request of 2^64 - 1 bytes ended the process.
WrappedRefused ==
    call.op = "xxmalloc" /\ call.arg = Top(1) /\ ~call.returned /\ pc = "exited"

====
